---- MODULE Spec2Model ----
(***************************************************************************)
(* Model of the Cool lexer (src/lexer/src/main.c): the buffered read       *)
(* stream (ReadBuffer, next_char, next_char_lookup, current_char_lookup),  *)
(* the lexeme extractors, the classifiers and the scanner driver.          *)
(*                                                                         *)
(* Bytes of the input file are naturals 0..255.  Values of C type char are *)
(* integers -128..127: the model is of a build whose plain char is signed  *)
(* (the x86 / x86-64 ABI), so that storing a uint8_t or the int EOF in a   *)
(* char goes through ToChar.                                               *)
(***************************************************************************)
EXTENDS Integers, Sequences, FiniteSets, TLC

\* ---------------------------------------------------------------- bounds
\* The read block (4096 bytes in the source) scaled down so that inputs of a
\* few bytes cross block boundaries.
INPUT_FILE_BLOCK_SIZE == 2
\* The two lexeme length limits (1024 and 1024 in the source) scaled down.
LITERAL_STRING_MAX_SIZE == 11
GENERAL_NAME_MAX_SIZE == 11
\* Longest input of the stream specification.
MaxStreamLen == 5

\* ------------------------------------------------------- character codes
EOF == -1
NUL == 0
TAB == 9
NL == 10
VT == 11
FF == 12
CR == 13
SPACE == 32
QUOTE == 34
LPAREN == 40
RPAREN == 41
STAR == 42
PLUS == 43
COMMA == 44
MINUS == 45
DOT == 46
SLASH == 47
CH0 == 48
CH2 == 50
CH9 == 57
COLON == 58
SEMI == 59
LESS == 60
EQUAL == 61
GREATER == 62
AT == 64
UPPER_A == 65
UPPER_Z == 90
BACKSLASH == 92
UNDERSCORE == 95
LOWER_A == 97
LOWER_Z == 122
LBRACE == 123
RBRACE == 125
TILDE == 126
BYTE_FF == 255
INT32_MAX == 2147483647

\* ---------------------------------------------------------- return codes
LEXER_OK == 0
LEXER_ERROR_IDENTIFIER_NAME_TOO_LONG == 3
LEXER_ERROR_STRING_LITERAL_TOO_LONG == 4
LEXER_ERROR_WRONG_INTEGER32_FORMAT == 5
LEXER_ERROR_UPPERCASE_BOOLEAN_KEYWORD == 6
LEXER_ERROR_INVALID_CHARACTER == 7
LEXER_ERROR_INVALID_STRING_CHARACTER == 8
LEXER_ERROR_NON_ESCAPED_NEWLINE == 9
\* exit_code while the process is still running
NO_EXIT == 0 - 1

VARIABLES
    input,      \* the bytes of the file behind fp (never changes)
    buf,        \* the ReadBuffer, with the read position of its fp
    pc,         \* where the scanner is: "lexer" (top of the driver loop), a loop
                \* of remove_comments, extract_string or extract_general_name,
                \* "done" (main returned) or "exit" (exit() was called)
    current_char,        \* the local current_char of remove_comments
    name_buffer,         \* the static name_buffer of lexer
    current_buffer_pos,  \* the local of extract_string / extract_general_name
    out,        \* the tokens written to the -lex file
    tok_line,   \* the line number printed for the token being extracted
    tok_start,  \* the file offset of that token's first byte
    exit_code,  \* the process's exit code
    log,        \* stream specification: the values advance has returned
    last_op,    \* stream specification: the last stream call made
    last_ret,   \* its return value
    prev_op,    \* the call before it
    prev_ret,   \* and what that one returned
    prev_buf    \* the ReadBuffer as it was before the last call

stream_hist == <<log, last_op, last_ret, prev_op, prev_ret, prev_buf>>
lexer_vars == <<pc, current_char, name_buffer, current_buffer_pos, out, tok_line,
                tok_start, exit_code>>
vars == <<input, buf, lexer_vars, stream_hist>>

Min(a, b) == IF a < b THEN a ELSE b

\* Conversion of a byte (or of the int EOF) to char on a signed-char build.
ToChar(b) == IF b >= 128 THEN b - 256 ELSE b

\* ------------------------------------------------------------ the stream
\* fread(buf->content, 1, INPUT_FILE_BLOCK_SIZE, buf->fp): the number of bytes
\* read at file position pos, and the block after the read (bytes past the
\* count keep their old value).
fread_count(pos) == Min(INPUT_FILE_BLOCK_SIZE, Len(input) - pos)

fread_content(content, pos) ==
    [i \in 1..INPUT_FILE_BLOCK_SIZE |->
        IF i <= fread_count(pos) THEN input[pos + i] ELSE content[i]]

\* fgetc(fp) at file position pos: the int it returns and the position after.
fgetc(pos) ==
    IF pos < Len(input)
    THEN [ret |-> input[pos + 1], pos |-> pos + 1]
    ELSE [ret |-> EOF, pos |-> pos]

init_buffer ==
    [content |-> fread_content([i \in 1..INPUT_FILE_BLOCK_SIZE |-> 0], 0),
     current_position |-> 0,
     total_size |-> fread_count(0),
     current_line |-> 1,
     fp_pos |-> fread_count(0)]

\* A line counter that misses a newline sitting first in a refilled block.
next_char_stale_line(b) ==
    LET refill == b.current_position = b.total_size
        n == fread_count(b.fp_pos)
        b1 == IF refill
              THEN [b EXCEPT !.content = fread_content(b.content, b.fp_pos),
                             !.total_size = n,
                             !.current_position = 0,
                             !.fp_pos = b.fp_pos + n]
              ELSE b
    IN  IF refill /\ n = 0
        THEN [buf |-> b1, ret |-> EOF]
        ELSE LET c == b1.content[b1.current_position + 1]
             IN  [buf |-> [b1 EXCEPT !.current_line =
                                        IF c = NL /\ ~refill THEN @ + 1 ELSE @,
                                     !.current_position = @ + 1],
                  ret |-> ToChar(c)]

next_char(b) ==
    LET refill == b.current_position = b.total_size
        n == fread_count(b.fp_pos)
        b1 == IF refill
              THEN [b EXCEPT !.content = fread_content(b.content, b.fp_pos),
                             !.total_size = n,
                             !.current_position = 0,
                             !.fp_pos = b.fp_pos + n]
              ELSE b
    IN  IF refill /\ n = 0
        THEN [buf |-> b1, ret |-> EOF]
        ELSE LET c == b1.content[b1.current_position + 1]
             IN  [buf |-> [b1 EXCEPT !.current_line = IF c = NL THEN @ + 1 ELSE @,
                                     !.current_position = @ + 1],
                  ret |-> ToChar(c)]

\* The byte read ahead is kept in a char before it is compared with EOF, and
\* fsetpos is reached only when that char differs from EOF.
next_char_lookup(b) ==
    IF b.current_position = b.total_size
    THEN LET g == fgetc(b.fp_pos)
             c == ToChar(g.ret)
         IN  IF c = EOF
             THEN [buf |-> [b EXCEPT !.fp_pos = g.pos], ret |-> EOF]
             ELSE [buf |-> b, ret |-> c]
    ELSE [buf |-> b, ret |-> ToChar(b.content[b.current_position + 1])]

current_char_lookup(b) ==
    IF b.current_position = 0
    THEN EOF
    ELSE ToChar(b.content[b.current_position])

\* ------------------------------------------- the stream specification
StreamAlphabet == {LOWER_A, NL, BYTE_FF}

RECURSIVE SeqsUpTo(_, _)
SeqsUpTo(S, n) ==
    IF n = 0
    THEN {<<>>}
    ELSE LET shorter == SeqsUpTo(S, n - 1)
         IN  shorter \cup {Append(s, x) : s \in {t \in shorter : Len(t) = n - 1}, x \in S}

StreamInit ==
    /\ input \in SeqsUpTo(StreamAlphabet, MaxStreamLen)
    /\ buf = init_buffer
    /\ log = <<>>
    /\ last_op = "none"
    /\ last_ret = EOF
    /\ prev_op = "none"
    /\ prev_ret = EOF
    /\ prev_buf = init_buffer
    /\ pc = "stream"
    /\ current_char = EOF
    /\ name_buffer = [i \in 0..LITERAL_STRING_MAX_SIZE |-> NUL]
    /\ current_buffer_pos = 0
    /\ out = <<>>
    /\ tok_line = 0
    /\ tok_start = 0
    /\ exit_code = NO_EXIT

Called(op, r) ==
    /\ buf' = r.buf
    /\ last_op' = op
    /\ last_ret' = r.ret
    /\ prev_op' = last_op
    /\ prev_ret' = last_ret
    /\ prev_buf' = buf
    /\ UNCHANGED <<input, lexer_vars>>

Advance ==
    /\ pc = "stream"
    /\ Len(log) <= Len(input) + 1
    /\ Called("advance", next_char(buf))
    /\ log' = Append(log, next_char(buf).ret)

PeekNext ==
    /\ pc = "stream"
    /\ Called("peekNext", next_char_lookup(buf))
    /\ UNCHANGED log

PeekCurrent ==
    /\ pc = "stream"
    /\ Called("peekCurrent", [buf |-> buf, ret |-> current_char_lookup(buf)])
    /\ UNCHANGED log

StreamNext == Advance \/ PeekNext \/ PeekCurrent

SpecStream == StreamInit /\ [][StreamNext]_vars

\* ------------------------------------------------- character classes
iswhitespace(c) == c \in {SPACE, NL, FF, CR, TAB, VT}

isdigit(c) == c >= CH0 /\ c <= CH9

\* name_buffer[0] >= 'A' && name_buffer[0] <= 'Z'
isupper(c) == c >= UPPER_A /\ c <= UPPER_Z

\* isalnum in the "C" locale (the program never calls setlocale); EOF is not
\* alphanumeric.
isalnum(c) == isdigit(c) \/ isupper(c) \/ (c >= LOWER_A /\ c <= LOWER_Z)

isname(c) == isalnum(c) \/ c = UNDERSCORE

tolower(c) == IF isupper(c) THEN c + (LOWER_A - UPPER_A) ELSE c

\* ------------------------------------------------------------ C strings
Letters ==
    <<"a", "b", "c", "d", "e", "f", "g", "h", "i", "j", "k", "l", "m",
      "n", "o", "p", "q", "r", "s", "t", "u", "v", "w", "x", "y", "z">>

\* The char codes of a word given letter by letter.
Str(w) == [i \in 1..Len(w) |-> LOWER_A - 1 + (CHOOSE k \in 1..26 : Letters[k] = w[i])]

\* The C string held in a char array: the chars before the first NUL.
CStr(nb) ==
    LET n == CHOOSE k \in 0..(LITERAL_STRING_MAX_SIZE + 1) :
                 /\ k <= LITERAL_STRING_MAX_SIZE => nb[k] = NUL
                 /\ \A j \in 0..(k - 1) : nb[j] # NUL
    IN  [i \in 1..n |-> nb[i - 1]]

strcmp(a, b) == IF a = b THEN 0 ELSE 1

\* ------------------------------------------------------- the classifiers
keywords ==
    <<Str(<<"c", "l", "a", "s", "s">>), Str(<<"e", "l", "s", "e">>),
      Str(<<"f", "a", "l", "s", "e">>), Str(<<"f", "i">>), Str(<<"i", "f">>),
      Str(<<"i", "n">>), Str(<<"i", "n", "h", "e", "r", "i", "t", "s">>),
      Str(<<"i", "s", "v", "o", "i", "d">>), Str(<<"l", "e", "t">>),
      Str(<<"l", "o", "o", "p">>), Str(<<"p", "o", "o", "l">>),
      Str(<<"t", "h", "e", "n">>), Str(<<"w", "h", "i", "l", "e">>),
      Str(<<"c", "a", "s", "e">>), Str(<<"e", "s", "a", "c">>),
      Str(<<"n", "e", "w">>), Str(<<"o", "f">>), Str(<<"n", "o", "t">>),
      Str(<<"t", "r", "u", "e">>)>>

\* The index in keywords of the first keyword equal to the lowercased text,
\* 0 for NULL.
check_keyword(text) ==
    LET text_lower == [i \in 1..Len(text) |-> tolower(text[i])]
        hits == {i \in 1..Len(keywords) : strcmp(text_lower, keywords[i]) = 0}
    IN  IF hits = {} THEN 0 ELSE CHOOSE i \in hits : \A j \in hits : i <= j

\* The capital-letter test kept to the two boolean keywords.
capital_test_booleans_only(keyword) ==
    strcmp(keyword, Str(<<"t", "r", "u", "e">>)) = 0
        \/ strcmp(keyword, Str(<<"f", "a", "l", "s", "e">>)) = 0

\* The condition guarding the capital-letter test of a matched keyword.
capital_test_applies(keyword) ==
    strcmp(keyword, Str(<<"t", "r", "u", "e">>)) # 0
        \/ strcmp(keyword, Str(<<"f", "a", "l", "s", "e">>)) # 0

\* 32-bit words are kept as two 16-bit halves, so that no intermediate value
\* leaves the range of TLC's 32-bit integers: the word is hi * 2^16 + lo.
\* A signed word is kept as its two's-complement bit pattern.
Half == 65536

Word(n) == [hi |-> n \div Half, lo |-> n % Half]

\* word * k modulo 2^32, for a small k (a digit, or 10)
MulSmall(w, k) ==
    LET l == w.lo * k
    IN  [hi |-> (w.hi * k + l \div Half) % Half, lo |-> l % Half]

\* a + b modulo 2^32
AddWord(a, b) ==
    LET l == a.lo + b.lo
    IN  [hi |-> (a.hi + b.hi + l \div Half) % Half, lo |-> l % Half]

\* The conversion loop: for (i = text_size - 1, power = 1; i >= 0; i--, power *= 10)
\*     num += (text[i] - 48) * power;
RECURSIVE convert(_, _, _, _)
convert(text, i, power, num) ==
    IF i < 0
    THEN num
    ELSE convert(text, i - 1, MulSmall(power, 10),
                 AddWord(num, MulSmall(power, text[i + 1] - CH0)))

\* word * k without reduction modulo 2^32 (the high half grows past 16 bits),
\* and the test that such a value is within the range of int32_t.
WideMul(w, k) ==
    LET l == w.lo * k
    IN  [hi |-> w.hi * k + l \div Half, lo |-> l % Half]

FitsInt32(w) == w.hi <= INT32_MAX \div Half

\* Every signed value the conversion loop computes from index i down is
\* within the range of int32_t: each product (text[i] - 48) * power, and each
\* update power *= 10, the one made after the last digit included.
RECURSIVE conversion_in_range(_, _, _)
conversion_in_range(text, i, power) ==
    IF i < 0
    THEN TRUE
    ELSE /\ FitsInt32(WideMul(power, text[i + 1] - CH0))
         /\ FitsInt32(WideMul(power, 10))
         /\ conversion_in_range(text, i - 1, MulSmall(power, 10))

\* A conversion that leaves out check 3, so that a 10-digit text above 2^32
\* wraps around in num.
check_integer_no_check3(text) ==
    LET text_size == Len(text)
    IN  IF text_size > 10 THEN 0
        ELSE IF \E i \in 1..text_size : ~isdigit(text[i]) THEN 0
        ELSE LET num == convert(text, text_size - 1, Word(1), Word(0))
             IN  IF num.hi <= INT32_MAX \div Half THEN 1 ELSE 0

check_integer(text) ==
    LET text_size == Len(text)
    IN  IF text_size > 10 THEN 0
        ELSE IF \E i \in 1..text_size : ~isdigit(text[i]) THEN 0
        ELSE IF text_size = 10 /\ text[1] > CH2 THEN 0
        ELSE LET num == convert(text, text_size - 1, Word(1), Word(0))
             IN  IF num.hi <= INT32_MAX \div Half THEN 1 ELSE 0

\* ------------------------------------------------------- the extractors
\* The offset in the file of the byte the next advance hands out.
Offset(b) == b.fp_pos - b.total_size + b.current_position

\* The scanner's state as one record, and the two ways a token ends.
Emit(st, kind, text, b) ==
    [st EXCEPT !.out = Append(@, [line |-> st.tok_line, kind |-> kind, text |-> text,
                                  start |-> st.tok_start, end |-> Offset(b)]),
               !.buf = b,
               !.pc = "lexer"]

Fail(st, code, b) == [st EXCEPT !.pc = "exit", !.exit_code = code, !.buf = b]

extract_terminal(b) ==
    LET c == current_char_lookup(b)
        one(name) == [buf |-> b, name |-> name]
    IN  CASE c = LPAREN -> one("lparen")
          [] c = RPAREN -> one("rparen")
          [] c = STAR -> one("times")
          [] c = PLUS -> one("plus")
          [] c = COMMA -> one("comma")
          [] c = MINUS -> one("minus")
          [] c = DOT -> one("dot")
          [] c = SLASH -> one("divide")
          [] c = COLON -> one("colon")
          [] c = SEMI -> one("semi")
          [] c = LESS ->
                LET la == next_char_lookup(b)
                IN  IF la.ret = MINUS
                    THEN [buf |-> next_char(la.buf).buf, name |-> "larrow"]
                    ELSE IF la.ret = EQUAL
                    THEN [buf |-> next_char(la.buf).buf, name |-> "le"]
                    ELSE [buf |-> la.buf, name |-> "lt"]
          [] c = EQUAL ->
                LET la == next_char_lookup(b)
                IN  IF la.ret = GREATER
                    THEN [buf |-> next_char(la.buf).buf, name |-> "rarrow"]
                    ELSE [buf |-> la.buf, name |-> "equals"]
          [] c = AT -> one("at")
          [] c = LBRACE -> one("lbrace")
          [] c = RBRACE -> one("rbrace")
          [] c = TILDE -> one("tilde")
          [] OTHER -> one("NULL")

\* The two tests that open remove_comments: which comment loop is entered
\* ("line_comment", "block_comment" or "none"), with the local current_char.
remove_comments(b) ==
    LET c == current_char_lookup(b)
        la1 == IF c = MINUS THEN next_char_lookup(b) ELSE [buf |-> b, ret |-> NUL]
        la2 == IF c = LPAREN THEN next_char_lookup(la1.buf) ELSE [buf |-> la1.buf, ret |-> NUL]
    IN  IF c = MINUS /\ la1.ret = MINUS
        THEN [buf |-> la1.buf, opens |-> "line_comment", current_char |-> c]
        ELSE IF c = LPAREN /\ la2.ret = STAR
        THEN [buf |-> la2.buf, opens |-> "block_comment", current_char |-> c]
        ELSE [buf |-> la2.buf, opens |-> "none", current_char |-> c]

\* One iteration of do { current_char = next_char(..) } while (..).
line_comment_step(st) ==
    LET r == next_char(st.buf)
    IN  [st EXCEPT !.buf = r.buf,
                   !.current_char = r.ret,
                   !.pc = IF r.ret # NL /\ r.ret # EOF THEN "line_comment" ELSE "lexer"]

\* A block-comment loop whose test never finds the end marker.
block_comment_step_eof_unseen(st) ==
    LET la == IF st.current_char = STAR
              THEN next_char_lookup(st.buf)
              ELSE [buf |-> st.buf, ret |-> NUL]
    IN  IF st.current_char = STAR /\ la.ret = RPAREN
        THEN [st EXCEPT !.buf = next_char(la.buf).buf, !.pc = "lexer"]
        ELSE LET r == next_char(la.buf)
             IN  [st EXCEPT !.buf = r.buf, !.current_char = r.ret]

\* One iteration of while (current_char != EOF) { .. }; the iteration that
\* leaves the loop also makes the closing next_char call.
block_comment_step(st) ==
    IF st.current_char # EOF
    THEN LET la == IF st.current_char = STAR
                   THEN next_char_lookup(st.buf)
                   ELSE [buf |-> st.buf, ret |-> NUL]
         IN  IF st.current_char = STAR /\ la.ret = RPAREN
             THEN [st EXCEPT !.buf = next_char(la.buf).buf, !.pc = "lexer"]
             ELSE LET r == next_char(la.buf)
                  IN  [st EXCEPT !.buf = r.buf, !.current_char = r.ret]
    ELSE [st EXCEPT !.buf = next_char(st.buf).buf, !.pc = "lexer"]

\* An extract_string that closes the literal at any quote, escaped or not.
extract_string_step_any_quote(st) ==
    IF st.current_buffer_pos = LITERAL_STRING_MAX_SIZE
    THEN Fail(st, LEXER_ERROR_STRING_LITERAL_TOO_LONG, st.buf)
    ELSE LET previous_char == current_char_lookup(st.buf)
             r == next_char(st.buf)
             cur == r.ret
         IN  IF cur = QUOTE
             THEN LET nb == [st.name_buffer EXCEPT ![st.current_buffer_pos] = NUL]
                  IN  Emit([st EXCEPT !.name_buffer = nb], "string", CStr(nb), r.buf)
             ELSE IF cur = NUL \/ cur = EOF
             THEN Fail(st, LEXER_ERROR_INVALID_STRING_CHARACTER, r.buf)
             ELSE LET la == next_char_lookup(r.buf)
                  IN  IF la.ret = NL
                      THEN IF cur = BACKSLASH
                           THEN [st EXCEPT !.buf = next_char(la.buf).buf]
                           ELSE Fail(st, LEXER_ERROR_NON_ESCAPED_NEWLINE, la.buf)
                      ELSE [st EXCEPT !.buf = la.buf,
                                      !.name_buffer = [@ EXCEPT ![st.current_buffer_pos] = cur],
                                      !.current_buffer_pos = @ + 1]

\* One iteration of the loop of extract_string; on the closing quote, the
\* terminator is written and the driver prints the token.
extract_string_step(st) ==
    IF st.current_buffer_pos = LITERAL_STRING_MAX_SIZE
    THEN Fail(st, LEXER_ERROR_STRING_LITERAL_TOO_LONG, st.buf)
    ELSE LET previous_char == current_char_lookup(st.buf)
             r == next_char(st.buf)
             cur == r.ret
         IN  IF previous_char # BACKSLASH /\ cur = QUOTE
             THEN LET nb == [st.name_buffer EXCEPT ![st.current_buffer_pos] = NUL]
                  IN  Emit([st EXCEPT !.name_buffer = nb], "string", CStr(nb), r.buf)
             ELSE IF cur = NUL \/ cur = EOF
             THEN Fail(st, LEXER_ERROR_INVALID_STRING_CHARACTER, r.buf)
             ELSE LET la == next_char_lookup(r.buf)
                  IN  IF la.ret = NL
                      THEN IF cur = BACKSLASH
                           THEN [st EXCEPT !.buf = next_char(la.buf).buf]
                           ELSE Fail(st, LEXER_ERROR_NON_ESCAPED_NEWLINE, la.buf)
                      ELSE [st EXCEPT !.buf = la.buf,
                                      !.name_buffer = [@ EXCEPT ![st.current_buffer_pos] = cur],
                                      !.current_buffer_pos = @ + 1]

\* What the driver does with a completed name: integer, keyword, type or
\* identifier.
classify_name(st) ==
    LET text == CStr(st.name_buffer)
        first == st.name_buffer[0]
        keyword == check_keyword(text)
    IN  IF isdigit(first)
        THEN IF check_integer(text) = 1
             THEN Emit(st, "integer", text, st.buf)
             ELSE Fail(st, LEXER_ERROR_WRONG_INTEGER32_FORMAT, st.buf)
        ELSE IF keyword # 0
        THEN IF capital_test_applies(keywords[keyword]) /\ isupper(first)
             THEN Fail(st, LEXER_ERROR_UPPERCASE_BOOLEAN_KEYWORD, st.buf)
             ELSE Emit(st, "keyword", keywords[keyword], st.buf)
        ELSE IF isupper(first)
        THEN Emit(st, "type", text, st.buf)
        ELSE Emit(st, "identifier", text, st.buf)

\* One iteration of the loop of extract_general_name; the iteration that
\* breaks writes the terminator and the driver classifies the name.
extract_general_name_step(st) ==
    LET la == next_char_lookup(st.buf)
    IN  IF ~isname(la.ret)
        THEN classify_name([st EXCEPT !.buf = la.buf,
                                      !.name_buffer = [@ EXCEPT ![st.current_buffer_pos] = NUL]])
        ELSE IF st.current_buffer_pos = GENERAL_NAME_MAX_SIZE
        THEN Fail(st, LEXER_ERROR_IDENTIFIER_NAME_TOO_LONG, la.buf)
        ELSE LET r == next_char(la.buf)
             IN  [st EXCEPT !.buf = r.buf,
                            !.name_buffer = [@ EXCEPT ![st.current_buffer_pos] = r.ret],
                            !.current_buffer_pos = @ + 1]

\* One iteration of the driver loop, up to the call of an extractor's loop.
lexer_step(st) ==
    LET r == next_char(st.buf)
        c == r.ret
        rc == remove_comments(r.buf)
        st1 == [st EXCEPT !.buf = rc.buf,
                          !.current_char = rc.current_char,
                          !.tok_line = rc.buf.current_line,
                          !.tok_start = Offset(r.buf) - 1]
        t == extract_terminal(rc.buf)
    IN  IF c = EOF
        THEN [st EXCEPT !.buf = r.buf, !.pc = "done", !.exit_code = LEXER_OK]
        ELSE IF iswhitespace(c)
        THEN [st EXCEPT !.buf = r.buf]
        ELSE IF rc.opens # "none"
        THEN [st EXCEPT !.buf = rc.buf, !.pc = rc.opens, !.current_char = rc.current_char]
        ELSE IF c = QUOTE
        THEN [st1 EXCEPT !.pc = "extract_string", !.current_buffer_pos = 0]
        ELSE IF ~isname(c)
        THEN IF t.name = "NULL"
             THEN Fail(st1, LEXER_ERROR_INVALID_CHARACTER, t.buf)
             ELSE Emit(st1, t.name, <<>>, t.buf)
        ELSE [st1 EXCEPT !.pc = "extract_general_name",
                         !.name_buffer = [@ EXCEPT ![0] = current_char_lookup(rc.buf)],
                         !.current_buffer_pos = 1]

\* ------------------------------------------------ the scanner's inputs
\* Longest input of the general families, and longest body of a string literal
\* of the string family.
MaxLen == 4
MaxStrLen == 5

\* Comments, newlines and parentheses.
CommentAlphabet == {MINUS, NL, LOWER_A, LPAREN, STAR, RPAREN, BYTE_FF}
\* The two-character operators and what may follow them.
OperatorAlphabet == {LESS, EQUAL, MINUS, GREATER, LOWER_A, BYTE_FF}
\* Names: letters of both cases, a digit, the underscore, a separator.
NameAlphabet == {LOWER_A, UPPER_A, CH0, UNDERSCORE, SPACE, BYTE_FF}
\* String literals.
StringAlphabet == {QUOTE, BACKSLASH, NL, LOWER_A, LOWER_A + 1, BYTE_FF}
\* Every byte the terminal switch names, with a few it does not.
TerminalBytes ==
    {LPAREN, RPAREN, STAR, PLUS, COMMA, MINUS, DOT, SLASH, COLON, SEMI, LESS,
     EQUAL, AT, LBRACE, RBRACE, TILDE, GREATER, BACKSLASH, NUL, SPACE, BYTE_FF}

StringInputs ==
    {<<QUOTE>> \o body : body \in SeqsUpTo(StringAlphabet, MaxStrLen)}
        \cup {<<NL, QUOTE>> \o body : body \in SeqsUpTo(StringAlphabet, MaxLen - 1)}

\* Digit texts around the limits of check_integer: 2147483647 with one digit
\* changed, shortened by its last digit, or led by one or two more digits;
\* 2^32 and its neighbours; digits followed by letters.
Int32MaxText == <<2, 1, 4, 7, 4, 8, 3, 6, 4, 7>>
Pow32Text == <<4, 2, 9, 4, 9, 6, 7, 2, 9, 6>>

Digits(ds) == [i \in 1..Len(ds) |-> CH0 + ds[i]]

OneDigitChanged(ds) ==
    {[ds EXCEPT ![i] = d] : i \in 1..Len(ds), d \in 0..9}

IntegerInputs ==
    LET near == OneDigitChanged(Int32MaxText) \cup OneDigitChanged(Pow32Text)
        texts == near
                 \cup {SubSeq(t, 1, 9) : t \in near}
                 \cup {<<d>> \o t : d \in {0, 1}, t \in OneDigitChanged(Int32MaxText)}
                 \cup {<<0, 0>> \o Int32MaxText, <<0, 0, 0>> \o Int32MaxText}
    IN  {Digits(t) \o tail : t \in texts, tail \in {<<>>, <<SPACE, CH9>>}}
        \cup {<<CH0 + 1, CH2>> \o tail :
                tail \in {<<LOWER_A, LOWER_A + 1>>, <<UNDERSCORE>>, <<UPPER_A>>}}

\* Every keyword in four spellings (class, Class, CLASS, cLASS), alone, with
\* one more letter, and followed by another token.
Spellings(k) ==
    {[i \in 1..Len(k) |-> IF i \in ups THEN k[i] - (LOWER_A - UPPER_A) ELSE k[i]] :
        ups \in {{}, {1}, 1..Len(k), 2..Len(k)}}

KeywordInputs ==
    {w \o tail :
        w \in UNION {Spellings(keywords[i]) : i \in 1..Len(keywords)},
        tail \in {<<>>, <<LOWER_A + 18>>, <<LPAREN, UPPER_A>>}}

\* n times the byte c.
Repeat(c, n) == [i \in 1..n |-> c]

\* Names and digit runs whose length is around GENERAL_NAME_MAX_SIZE, alone
\* and followed by another token.
LongNameInputs ==
    {Repeat(c, n) \o tail :
        c \in {LOWER_A, UPPER_A, CH0},
        n \in (GENERAL_NAME_MAX_SIZE - 1)..(GENERAL_NAME_MAX_SIZE + 2),
        tail \in {<<>>, <<SPACE, LOWER_A>>, <<LPAREN>>}}

\* String literals whose content is around LITERAL_STRING_MAX_SIZE characters
\* long, with and without a line continuation, closed and followed by a name,
\* closed at the end of the file, or never closed.
LongStringInputs ==
    {<<QUOTE>> \o lead \o Repeat(LOWER_A, n) \o tail :
        lead \in {<<>>, <<BACKSLASH, NL>>, <<LOWER_A + 1, BACKSLASH, NL>>},
        n \in (LITERAL_STRING_MAX_SIZE - 2)..(LITERAL_STRING_MAX_SIZE + 1),
        tail \in {<<>>, <<QUOTE>>, <<QUOTE, LOWER_A>>}}

\* Block comments opening the file: the opener, then up to MaxLen bytes.
BlockCommentAlphabet == {LPAREN, STAR, RPAREN, LOWER_A, BYTE_FF}

BlockCommentInputs ==
    {<<LPAREN, STAR>> \o body : body \in SeqsUpTo(BlockCommentAlphabet, MaxLen)}

LexerInputs ==
    SeqsUpTo(CommentAlphabet, MaxLen)
        \cup SeqsUpTo(OperatorAlphabet, MaxLen)
        \cup SeqsUpTo(NameAlphabet, MaxLen)
        \cup SeqsUpTo(TerminalBytes, 2)
        \cup StringInputs
        \cup IntegerInputs
        \cup KeywordInputs
        \cup LongNameInputs
        \cup LongStringInputs
        \cup BlockCommentInputs

\* ------------------------------------------------------- the scanner
St ==
    [buf |-> buf, pc |-> pc, current_char |-> current_char,
     name_buffer |-> name_buffer, current_buffer_pos |-> current_buffer_pos,
     out |-> out, tok_line |-> tok_line, tok_start |-> tok_start,
     exit_code |-> exit_code]

Becomes(st) ==
    /\ buf' = st.buf
    /\ pc' = st.pc
    /\ current_char' = st.current_char
    /\ name_buffer' = st.name_buffer
    /\ current_buffer_pos' = st.current_buffer_pos
    /\ out' = st.out
    /\ tok_line' = st.tok_line
    /\ tok_start' = st.tok_start
    /\ exit_code' = st.exit_code
    /\ UNCHANGED <<input, stream_hist>>

Init ==
    /\ input \in LexerInputs
    /\ buf = init_buffer
    /\ pc = "lexer"
    /\ current_char = EOF
    /\ name_buffer = [i \in 0..LITERAL_STRING_MAX_SIZE |-> NUL]
    /\ current_buffer_pos = 0
    /\ out = <<>>
    /\ tok_line = 0
    /\ tok_start = 0
    /\ exit_code = NO_EXIT
    /\ log = <<>>
    /\ last_op = "none"
    /\ last_ret = EOF
    /\ prev_op = "none"
    /\ prev_ret = EOF
    /\ prev_buf = init_buffer

LexerLoop ==
    /\ pc = "lexer"
    /\ Becomes(lexer_step(St))

LineComment ==
    /\ pc = "line_comment"
    /\ Becomes(line_comment_step(St))

BlockComment ==
    /\ pc = "block_comment"
    /\ Becomes(block_comment_step(St))

\* An extract_string whose continuation leaves the newline in the stream.
ExtractString_newline_not_consumed ==
    /\ pc = "extract_string"
    /\ LET r == next_char(buf)
           la == next_char_lookup(r.buf)
       IN  Becomes(IF current_buffer_pos < LITERAL_STRING_MAX_SIZE
                          /\ r.ret = BACKSLASH /\ la.ret = NL
                   THEN [St EXCEPT !.buf = la.buf]
                   ELSE extract_string_step(St))

\* An extract_string that takes the end of the input for a closing quote.
ExtractString_eof_closes ==
    /\ pc = "extract_string"
    /\ LET r == next_char(buf)
           nb == [name_buffer EXCEPT ![current_buffer_pos] = NUL]
       IN  Becomes(IF current_buffer_pos < LITERAL_STRING_MAX_SIZE /\ r.ret = EOF
                   THEN Emit([St EXCEPT !.name_buffer = nb], "string", CStr(nb), r.buf)
                   ELSE extract_string_step(St))

ExtractString ==
    /\ pc = "extract_string"
    /\ Becomes(extract_string_step(St))

\* An extract_general_name whose length test fires one character early.
ExtractGeneralName_limit_one_early ==
    /\ pc = "extract_general_name"
    /\ LET la == next_char_lookup(buf)
       IN  Becomes(IF isname(la.ret) /\ current_buffer_pos = GENERAL_NAME_MAX_SIZE - 1
                   THEN Fail(St, LEXER_ERROR_IDENTIFIER_NAME_TOO_LONG, la.buf)
                   ELSE extract_general_name_step(St))

\* An extract_general_name without its length test.
ExtractGeneralName_no_length_test ==
    /\ pc = "extract_general_name"
    /\ LET la == next_char_lookup(buf)
           r == next_char(la.buf)
       IN  Becomes(IF isname(la.ret)
                   THEN [St EXCEPT !.buf = r.buf,
                                   !.name_buffer = [@ EXCEPT ![current_buffer_pos] = r.ret],
                                   !.current_buffer_pos = @ + 1]
                   ELSE extract_general_name_step(St))

ExtractGeneralName ==
    /\ pc = "extract_general_name"
    /\ Becomes(extract_general_name_step(St))

Next ==
    \/ LexerLoop
    \/ LineComment
    \/ BlockComment
    \/ ExtractString
    \/ ExtractGeneralName

Spec == Init /\ [][Next]_vars

\* ------------------------------------------------------ stream claims
\* The values a stream over the file would hand out on its first n advances:
\* the bytes in order (as char), then the end marker.
ExpectedLog(n) ==
    [i \in 1..n |-> IF i <= Len(input) THEN ToChar(input[i]) ELSE EOF]

RECURSIVE CountIn(_, _)
CountIn(s, x) ==
    IF s = <<>> THEN 0
    ELSE (IF Head(s) = x THEN 1 ELSE 0) + CountIn(Tail(s), x)

\* C1: peekNext returns exactly what the advance made right after it returns,
\* and the successive results of advance are the input bytes in order, each
\* once, followed by the end marker.
C1_PeekNextIsNextAdvance ==
    /\ (prev_op = "peekNext" /\ last_op = "advance") => last_ret = prev_ret
    /\ log = ExpectedLog(Len(log))

\* C2: peekNext and peekCurrent leave the whole stream state (cursor, valid
\* count, block, line counter, file read position) as it was before the call.
C2_PeekLeavesStreamUnchanged ==
    last_op \in {"peekNext", "peekCurrent"} => buf = prev_buf

\* C3: the cursor never passes the valid-byte count, and the line counter is 1
\* plus the number of newline bytes advance has consumed so far.
C3_CursorAndLineCounter ==
    /\ buf.current_position <= buf.total_size
    /\ buf.current_line = 1 + CountIn(log, NL)

\* C3's case: a newline consumed as the first byte of a refilled block.
C3_Witness_NewlineAfterRefill ==
    /\ last_op = "advance"
    /\ last_ret = NL
    /\ Len(log) > INPUT_FILE_BLOCK_SIZE
    /\ buf.current_position = 1
    /\ buf.current_line >= 2

\* ----------------------------------------------------- scanner claims
\* What the claims speak of, read off the input file alone.
Toks == {out[i] : i \in 1..Len(out)}

\* The byte at file offset k, as a char.
ByteAt(k) == ToChar(input[k + 1])

\* The number of newline bytes strictly before file offset k.
NewlinesBefore(k) == CountIn(SubSeq(input, 1, k), NL)

\* The maximal run of alphanumeric-or-underscore bytes that starts at offset k.
RunAt(k) ==
    LET n == CHOOSE m \in 0..(Len(input) - k) :
                 /\ \A j \in k..(k + m - 1) : isname(ByteAt(j))
                 /\ k + m < Len(input) => ~isname(ByteAt(k + m))
    IN  SubSeq(input, k + 1, k + n)

Lower(s) == [i \in 1..Len(s) |-> tolower(s[i])]

\* The 19 keywords of the language.
SpecKeywords ==
    {Str(<<"c", "l", "a", "s", "s">>), Str(<<"e", "l", "s", "e">>),
     Str(<<"f", "a", "l", "s", "e">>), Str(<<"f", "i">>), Str(<<"i", "f">>),
     Str(<<"i", "n">>), Str(<<"i", "n", "h", "e", "r", "i", "t", "s">>),
     Str(<<"i", "s", "v", "o", "i", "d">>), Str(<<"l", "e", "t">>),
     Str(<<"l", "o", "o", "p">>), Str(<<"p", "o", "o", "l">>),
     Str(<<"t", "h", "e", "n">>), Str(<<"w", "h", "i", "l", "e">>),
     Str(<<"c", "a", "s", "e">>), Str(<<"e", "s", "a", "c">>),
     Str(<<"n", "e", "w">>), Str(<<"o", "f">>), Str(<<"n", "o", "t">>),
     Str(<<"t", "r", "u", "e">>)}

\* The token being extracted when the scan was ended by exit().
Aborted == pc = "exit"

\* C4: every emitted token carries the line of its first byte (1 plus the
\* newlines strictly before it), line numbers never decrease, and a `--`
\* comment yields no token: when the input opens with `--`, no token starts
\* before the end of that line.
C4_TokenLineNumbers ==
    /\ \A t \in Toks : t.line = 1 + NewlinesBefore(t.start)
    /\ \A i, j \in 1..Len(out) : i < j => out[i].line <= out[j].line
    /\ (Len(input) >= 2 /\ input[1] = MINUS /\ input[2] = MINUS) =>
          \A t \in Toks : \E k \in 1..t.start : input[k] = NL

\* The decimal value of a text of at most 10 digits is at most 2147483647:
\* the text, padded with zeros to 10 digits, is not after 2147483647 in
\* dictionary order.
ValueFitsInt32(s) ==
    LET padded == [i \in 1..10 |-> IF i <= 10 - Len(s) THEN CH0 ELSE s[i - (10 - Len(s))]]
        limit == Digits(Int32MaxText)
    IN  \/ padded = limit
        \/ \E i \in 1..10 : /\ padded[i] < limit[i]
                            /\ \A j \in 1..(i - 1) : padded[j] = limit[j]

IntegerAccept(s) ==
    /\ Len(s) <= 10
    /\ \A i \in 1..Len(s) : isdigit(s[i])
    /\ (Len(s) < 10 \/ s[1] <= CH2)
    /\ ValueFitsInt32(s)

\* C5: a digit-led name is emitted as an integer token exactly when
\* IntegerAccept holds of it, and every other digit-led name handed to the
\* integer path ends the scan with exit code 5.
C5_IntegerAcceptance ==
    /\ \A t \in Toks :
          isdigit(ByteAt(t.start)) =>
              /\ t.kind = "integer"
              /\ t.text = RunAt(t.start)
              /\ IntegerAccept(t.text)
    /\ \A t \in Toks : t.kind = "integer" => isdigit(ByteAt(t.start))
    /\ (Aborted /\ isdigit(ByteAt(tok_start))) =>
          IF Len(RunAt(tok_start)) > GENERAL_NAME_MAX_SIZE
          THEN exit_code = LEXER_ERROR_IDENTIFIER_NAME_TOO_LONG
          ELSE /\ exit_code = LEXER_ERROR_WRONG_INTEGER32_FORMAT
               /\ CStr(name_buffer) = RunAt(tok_start)
               /\ ~IntegerAccept(RunAt(tok_start))
    /\ exit_code = LEXER_ERROR_WRONG_INTEGER32_FORMAT => isdigit(ByteAt(tok_start))

\* C5's case: the 10-digit text 2147483648, which only check 4 rejects.
C5_Witness_JustAboveInt32Max ==
    /\ Aborted
    /\ exit_code = LEXER_ERROR_WRONG_INTEGER32_FORMAT
    /\ CStr(name_buffer) = Digits(<<2, 1, 4, 7, 4, 8, 3, 6, 4, 8>>)

\* C6: a name lexeme is the maximal run of name bytes from its first byte; it
\* is classified digit-led -> integer, else keyword (ignoring case), else
\* uppercase-led -> type, else identifier, type and identifier carrying the
\* lexeme; and the byte that ends the run is not consumed: the scan goes on
\* at the offset right after the run.
C6_NameLexeme ==
    \A t \in Toks :
        isname(ByteAt(t.start)) =>
            LET run == RunAt(t.start)
            IN  /\ t.end = t.start + Len(run)
                /\ t.kind = (IF isdigit(run[1]) THEN "integer"
                             ELSE IF Lower(run) \in SpecKeywords THEN "keyword"
                             ELSE IF isupper(run[1]) THEN "type"
                             ELSE "identifier")
                /\ t.kind # "keyword" => t.text = run

TerminalOf(c, d) ==
    CASE c = LESS /\ d = MINUS -> [name |-> "larrow", len |-> 2]
      [] c = LESS /\ d = EQUAL -> [name |-> "le", len |-> 2]
      [] c = LESS -> [name |-> "lt", len |-> 1]
      [] c = EQUAL /\ d = GREATER -> [name |-> "rarrow", len |-> 2]
      [] c = EQUAL -> [name |-> "equals", len |-> 1]
      [] c = LPAREN -> [name |-> "lparen", len |-> 1]
      [] c = RPAREN -> [name |-> "rparen", len |-> 1]
      [] c = STAR -> [name |-> "times", len |-> 1]
      [] c = PLUS -> [name |-> "plus", len |-> 1]
      [] c = COMMA -> [name |-> "comma", len |-> 1]
      [] c = MINUS -> [name |-> "minus", len |-> 1]
      [] c = DOT -> [name |-> "dot", len |-> 1]
      [] c = SLASH -> [name |-> "divide", len |-> 1]
      [] c = COLON -> [name |-> "colon", len |-> 1]
      [] c = SEMI -> [name |-> "semi", len |-> 1]
      [] c = AT -> [name |-> "at", len |-> 1]
      [] c = LBRACE -> [name |-> "lbrace", len |-> 1]
      [] c = RBRACE -> [name |-> "rbrace", len |-> 1]
      [] c = TILDE -> [name |-> "tilde", len |-> 1]
      [] OTHER -> [name |-> "NULL", len |-> 0]

\* C8: a terminal token is decided by its first byte and one byte of
\* lookahead, and the lookahead byte is consumed only when it completes
\* larrow, le or rarrow: the scan goes on right after the one or two bytes of
\* the terminal.
C8_TerminalLookahead ==
    \A t \in Toks :
        (~isname(ByteAt(t.start)) /\ ByteAt(t.start) # QUOTE) =>
            LET c == ByteAt(t.start)
                d == IF t.start + 1 < Len(input) THEN input[t.start + 2] ELSE EOF
            IN  /\ t.kind = TerminalOf(c, d).name
                /\ t.end = t.start + TerminalOf(c, d).len

\* The input "a\"b" : quote, a, backslash, quote, b, quote.
EscapedQuoteInput == <<QUOTE, LOWER_A, BACKSLASH, QUOTE, LOWER_A + 1, QUOTE>>

StringToks == {t \in Toks : t.kind = "string"}

\* A quote preceded by a backslash does not close a literal: the quote that
\* closes an emitted string token is not preceded by a backslash, and every
\* quote between the opening and the closing quote is in the token's text.
EscapedQuoteDoesNotClose ==
    \A t \in StringToks :
        /\ input[t.end] = QUOTE
        /\ input[t.end - 1] # BACKSLASH
        /\ CountIn(t.text, QUOTE) = CountIn(SubSeq(input, t.start + 2, t.end - 1), QUOTE)

C10_RawNewlineIsFatal ==
    /\ \A t \in StringToks : \A i \in 1..Len(t.text) : t.text[i] # NL
    /\ \A t \in StringToks : \A j \in (t.start + 2)..(t.end - 1) :
          input[j] = NL => input[j - 1] = BACKSLASH
    /\ (Aborted /\ ByteAt(tok_start) = QUOTE
            /\ \E j \in (tok_start + 2)..Offset(buf) :
                  input[j] = NL /\ input[j - 1] # BACKSLASH) =>
          exit_code = LEXER_ERROR_NON_ESCAPED_NEWLINE

\* C11: in a step of extract_string that is not stopped by the length limit
\* and whose next two bytes in the file are a backslash and a newline, both
\* bytes are consumed, nothing is added to the accumulated text, no error is
\* raised, the line counter grows by one and the loop goes on with the byte
\* after the newline; and the text of an emitted string token holds no newline
\* that a backslash precedes in the file.
ContinuationAhead ==
    /\ pc = "extract_string"
    /\ current_buffer_pos < LITERAL_STRING_MAX_SIZE
    /\ Offset(buf) + 2 <= Len(input)
    /\ input[Offset(buf) + 1] = BACKSLASH
    /\ input[Offset(buf) + 2] = NL

ContinuationTaken ==
    /\ pc' = "extract_string"
    /\ exit_code' = NO_EXIT
    /\ Offset(buf') = Offset(buf) + 2
    /\ buf'.current_line = buf.current_line + 1
    /\ name_buffer' = name_buffer
    /\ current_buffer_pos' = current_buffer_pos
    /\ out' = out

\* The newlines between the quotes of a literal that no backslash precedes.
RawNewlines(t) ==
    {j \in (t.start + 2)..(t.end - 1) : input[j] = NL /\ input[j - 1] # BACKSLASH}

C11_LineContinuation ==
    /\ [][ContinuationAhead => ContinuationTaken]_vars
    /\ [](\A t \in StringToks : CountIn(t.text, NL) = Cardinality(RawNewlines(t)))

\* C11's case: a string token was emitted whose literal holds a continuation
\* between two content bytes, the second one in the line after.
C11_Witness_ContinuedLiteral ==
    \E t \in StringToks :
        /\ \E j \in (t.start + 3)..(t.end - 2) : input[j] = BACKSLASH /\ input[j + 1] = NL
        /\ Len(t.text) >= 2
        /\ \A i \in 1..Len(t.text) : t.text[i] # NL
        /\ buf.current_line = t.line + 1

\* The literal opened by the quote at offset k has a closing quote: a quote
\* after the opening one that no backslash immediately precedes.
HasClosingQuote(k) ==
    \E j \in (k + 2)..Len(input) : input[j] = QUOTE /\ input[j - 1] # BACKSLASH

\* Every emitted string token ends at a closing quote.
EmittedLiteralsAreClosed ==
    \A t \in StringToks :
        /\ t.end >= t.start + 2
        /\ input[t.end] = QUOTE
        /\ input[t.end - 1] # BACKSLASH

\* The scan was ended inside a literal that has no closing quote.
AbortedInUnclosedLiteral ==
    /\ Aborted
    /\ ByteAt(tok_start) = QUOTE
    /\ ~HasClosingQuote(tok_start)

AbortedInName == Aborted /\ isname(ByteAt(tok_start))

\* C13: the scan ends with exit code 3 exactly when the run of name bytes
\* being extracted is longer than GENERAL_NAME_MAX_SIZE; a run of at most
\* that length is extracted in full: a token emitted for it carries the whole
\* run (a keyword its lowercase form), and when the classification ends the
\* scan (exit codes 5 and 6) the whole run has been accumulated.
C13_NameLengthLimit ==
    /\ exit_code = LEXER_ERROR_IDENTIFIER_NAME_TOO_LONG =>
          /\ isname(ByteAt(tok_start))
          /\ Len(RunAt(tok_start)) > GENERAL_NAME_MAX_SIZE
    /\ (AbortedInName /\ Len(RunAt(tok_start)) > GENERAL_NAME_MAX_SIZE) =>
          exit_code = LEXER_ERROR_IDENTIFIER_NAME_TOO_LONG
    /\ (AbortedInName /\ Len(RunAt(tok_start)) <= GENERAL_NAME_MAX_SIZE) =>
          CStr(name_buffer) = RunAt(tok_start)
    /\ \A t \in Toks :
          isname(ByteAt(t.start)) =>
              /\ Len(RunAt(t.start)) <= GENERAL_NAME_MAX_SIZE
              /\ t.text = (IF t.kind = "keyword" THEN Lower(RunAt(t.start))
                           ELSE RunAt(t.start))

\* C13's case: an identifier of exactly GENERAL_NAME_MAX_SIZE characters was
\* emitted in full.
C13_Witness_NameOfMaximalLength ==
    \E t \in Toks :
        /\ t.kind = "identifier"
        /\ Len(t.text) = GENERAL_NAME_MAX_SIZE
        /\ t.text = RunAt(t.start)

\* The closing quote of the literal opened at offset k (its position in the
\* file), and the number of content characters of that literal: the bytes
\* between the quotes, less the backslash and the newline of every line
\* continuation.
ClosingQuote(k) ==
    CHOOSE j \in (k + 2)..Len(input) :
        /\ input[j] = QUOTE /\ input[j - 1] # BACKSLASH
        /\ \A i \in (k + 2)..(j - 1) : ~(input[i] = QUOTE /\ input[i - 1] # BACKSLASH)

ContentLength(k) ==
    LET j == ClosingQuote(k)
        continued == {i \in (k + 3)..(j - 1) : input[i] = NL /\ input[i - 1] = BACKSLASH}
    IN  (j - (k + 2)) - 2 * Cardinality(continued)

\* The content of the literal opened at offset k holds no byte that ends the
\* scan by itself: no null byte, no 0xFF, no newline without a backslash.
OrdinaryContent(k) ==
    \A i \in (k + 2)..(ClosingQuote(k) - 1) :
        /\ input[i] \notin {NUL, BYTE_FF}
        /\ input[i] = NL => input[i - 1] = BACKSLASH

AbortedInClosedLiteral ==
    /\ Aborted
    /\ ByteAt(tok_start) = QUOTE
    /\ HasClosingQuote(tok_start)

\* C14: a terminated literal ends the scan with exit code 4 exactly when it
\* has more than LITERAL_STRING_MAX_SIZE content characters, and a literal
\* of at most that many content characters is emitted in full.
C14_StringLengthLimit ==
    /\ (AbortedInClosedLiteral /\ exit_code = LEXER_ERROR_STRING_LITERAL_TOO_LONG) =>
          ContentLength(tok_start) > LITERAL_STRING_MAX_SIZE
    /\ (AbortedInClosedLiteral /\ OrdinaryContent(tok_start)
            /\ ContentLength(tok_start) > LITERAL_STRING_MAX_SIZE) =>
          exit_code = LEXER_ERROR_STRING_LITERAL_TOO_LONG
    /\ \A t \in StringToks :
          /\ Len(t.text) <= LITERAL_STRING_MAX_SIZE
          /\ OrdinaryContent(t.start) => Len(t.text) = ContentLength(t.start)

\* The file opens with the block-comment opener.
OpensWithBlockComment ==
    /\ Len(input) >= 2
    /\ input[1] = LPAREN
    /\ input[2] = STAR

\* The positions j of the file at which a closer begins: a star followed by
\* a right parenthesis.
Closers == {j \in 1..(Len(input) - 1) : input[j] = STAR /\ input[j + 1] = RPAREN}

\* C15: when the file opens with a block comment and holds no closer at all,
\* no token is ever emitted, no error is raised, and the scan ends only in
\* its normal terminal state, with exit code 0 and the whole file consumed.
C15_UnterminatedBlockComment ==
    (OpensWithBlockComment /\ Closers = {}) =>
        /\ out = <<>>
        /\ pc # "exit"
        /\ pc = "done" => (exit_code = LEXER_OK /\ Offset(buf) = Len(input))

\* The closers that begin after the opener of a file that opens with a block
\* comment: the star of the opener is at position 2.
ClosersAfterOpener == {j \in Closers : j >= 3}

\* The offset at which the scan resumes after the comment that opens the
\* file: right after the right parenthesis of the first closer that begins
\* after the opener.
ResumeOffset ==
    (CHOOSE j \in ClosersAfterOpener : \A i \in ClosersAfterOpener : j <= i) + 1

\* C16: when the file opens with a block comment, the comment runs up to and
\* including the first closer that begins after the opener (to the end of the
\* file when there is none): no token starts inside it, an opener inside it
\* opens nothing, and the first byte examined after it is the byte right
\* after the closer.
C16_BlockCommentExtent ==
    OpensWithBlockComment =>
        IF ClosersAfterOpener = {}
        THEN out = <<>>
        ELSE /\ \A t \in Toks : t.start >= ResumeOffset
             /\ (ResumeOffset < Len(input) /\ isname(ByteAt(ResumeOffset))
                     /\ pc \in {"lexer", "done"} /\ Offset(buf) > ResumeOffset) =>
                   \E t \in Toks : t.start = ResumeOffset

\* C17: a value equal to the end marker is seen only at the end of the file:
\* the driver stops only when every byte has been consumed, the block-comment
\* loop holds the end marker only then, and string extraction ends the scan
\* with exit code 8 only on a null byte or at the end of the file.
C17_EndMarkerOnlyAtEnd ==
    /\ pc = "done" => Offset(buf) = Len(input)
    /\ (pc = "block_comment" /\ current_char = EOF) => Offset(buf) = Len(input)
    /\ exit_code = LEXER_ERROR_INVALID_STRING_CHARACTER =>
          \/ Offset(buf) = Len(input)
          \/ input[Offset(buf)] = NUL

\* The scan has ended: main returned, or exit() was called.
Terminated == pc \in {"done", "exit"}

\* The state after the step the scan takes next.
Successor ==
    CASE pc = "lexer" -> lexer_step(St)
      [] pc = "line_comment" -> line_comment_step(St)
      [] pc = "block_comment" -> block_comment_step(St)
      [] pc = "extract_string" -> extract_string_step(St)
      [] pc = "extract_general_name" -> extract_general_name_step(St)
      [] OTHER -> St

\* What bounds the number of steps left: the bytes not yet consumed, then
\* the position in the code (a loop before the driver it returns to, the
\* driver before the end, and the block-comment loop that has not yet read
\* the end marker before the one that has).
Variant(st) ==
    4 * (Len(input) - Offset(st.buf))
        + (CASE st.pc \in {"done", "exit"} -> 0
             [] st.pc = "lexer" -> 1
             [] st.pc = "block_comment" /\ st.current_char # EOF -> 3
             [] OTHER -> 2)

\* The step consumes input or leaves its loop; the one step that does neither
\* is the step of the block-comment loop that reads the end marker, after
\* which the loop's test fails without another read.
StepMakesProgress(st) ==
    \/ Offset(st.buf) > Offset(buf)
    \/ st.pc # pc
    \/ (pc = "block_comment" /\ current_char # EOF /\ st.current_char = EOF)

\* C18: the scan of every input terminates. In every state in which it has
\* not ended, a step is defined, that step consumes input or leaves its loop,
\* and it lowers a variant that is never negative, so that no loop spins at
\* the end of the input or at a block boundary; the scan ends in the normal
\* terminal state with exit code 0 or in a fatal state with exactly one of
\* the error codes.
C18_ScanTerminates ==
    /\ pc \in {"lexer", "line_comment", "block_comment", "extract_string",
               "extract_general_name", "done", "exit"}
    /\ Variant(St) >= 0
    /\ ~Terminated =>
          /\ StepMakesProgress(Successor)
          /\ Variant(Successor) < Variant(St)
    /\ pc = "done" <=> exit_code = LEXER_OK
    /\ pc = "exit" <=>
          exit_code \in LEXER_ERROR_IDENTIFIER_NAME_TOO_LONG..LEXER_ERROR_NON_ESCAPED_NEWLINE

\* C18's case: the block-comment loop has read the end marker at the real end
\* of a file longer than one block, and is about to test it.
C18_Witness_CommentLoopAtEndOfInput ==
    /\ pc = "block_comment"
    /\ current_char = EOF
    /\ Offset(buf) = Len(input)
    /\ Len(input) > INPUT_FILE_BLOCK_SIZE
    /\ input[Len(input)] # BYTE_FF

\* The kinds of token whose text is printed from the accumulator.
TextKinds == {"string", "integer", "type", "identifier"}

\* The token emitted last is still the one the accumulator holds: it came
\* from the accumulator and no other lexeme has been started since.
AccumulatorHoldsLastToken ==
    /\ Len(out) > 0
    /\ out[Len(out)].kind \in TextKinds
    /\ pc \in {"lexer", "line_comment", "block_comment", "done"}

\* C19: the accumulator has LITERAL_STRING_MAX_SIZE + 1 cells, indexed from
\* 0, and the index of the next write (a content byte or the terminator) is
\* in every state at most LITERAL_STRING_MAX_SIZE, in name extraction at most
\* GENERAL_NAME_MAX_SIZE; and the text of an emitted token is exactly the
\* bytes accumulated for it, ended by the terminator written for it, whatever
\* an earlier and longer lexeme left behind.
C19_AccumulatorInBounds ==
    /\ DOMAIN name_buffer = 0..LITERAL_STRING_MAX_SIZE
    /\ current_buffer_pos \in 0..LITERAL_STRING_MAX_SIZE
    /\ pc = "extract_general_name" => current_buffer_pos <= GENERAL_NAME_MAX_SIZE
    /\ AccumulatorHoldsLastToken =>
          LET text == out[Len(out)].text
          IN  /\ Len(text) = current_buffer_pos
              /\ \A i \in 1..Len(text) : text[i] = name_buffer[i - 1]
              /\ name_buffer[current_buffer_pos] = NUL

\* C19's case: a string of LITERAL_STRING_MAX_SIZE - 1 characters, the
\* longest the scan accepts, was emitted, and after it a shorter name from
\* the same accumulator.
C19_Witness_ShortNameAfterLongString ==
    /\ Len(out) = 2
    /\ out[1].kind = "string"
    /\ Len(out[1].text) = LITERAL_STRING_MAX_SIZE - 1
    /\ out[2].kind = "identifier"
    /\ Len(out[2].text) < Len(out[1].text)
    /\ name_buffer[Len(out[2].text) + 1] # NUL

\* The decimal value of a digit text, as a word whose high half is not
\* reduced.
RECURSIVE DecimalValue(_)
DecimalValue(s) ==
    IF s = <<>>
    THEN Word(0)
    ELSE LET m == WideMul(DecimalValue(SubSeq(s, 1, Len(s) - 1)), 10)
             l == m.lo + (s[Len(s)] - CH0)
         IN  [hi |-> m.hi + l \div Half, lo |-> l % Half]

\* Checks 1 to 3 of check_integer.
PassesChecks1to3(s) ==
    /\ Len(s) <= 10
    /\ \A i \in 1..Len(s) : isdigit(s[i])
    /\ Len(s) = 10 => s[1] <= CH2

\* The accumulator holds a text that check_integer has just been given: an
\* integer token was emitted for it, or the scan ended with exit code 5.
IntegerPathTaken ==
    \/ AccumulatorHoldsLastToken /\ out[Len(out)].kind = "integer"
    \/ exit_code = LEXER_ERROR_WRONG_INTEGER32_FORMAT

\* C20: for every text that passes checks 1 to 3, the unsigned accumulator
\* ends with the decimal value of the text, and every signed product and
\* every update of power is within the range of int32_t.
C20_ConversionInRange ==
    (IntegerPathTaken /\ PassesChecks1to3(CStr(name_buffer))) =>
        LET text == CStr(name_buffer)
        IN  /\ convert(text, Len(text) - 1, Word(1), Word(0)) = DecimalValue(text)
            /\ conversion_in_range(text, Len(text) - 1, Word(1))

====
